---- MODULE Spec2Model ----
(***************************************************************************)
(* State-machine model of the SIP B2BUA with RTP relay:                    *)
(*   - SIP engine           (sip-server index: handleRegister, handleInvite,*)
(*                           handleBye, handleAck, response dispatch)      *)
(*   - SipValidator         (utils/sip-validator.js)                       *)
(*   - UserManager          (utils/user-manager.js, the registrar)         *)
(*   - CallManager          (utils/call-manager.js, the dialog manager)    *)
(*   - RtpProxy             (rtp-proxy.js, stream table and SDP rewriter)  *)
(*                                                                         *)
(* A JavaScript Map is a function with a finite domain; the stream table,  *)
(* whose iteration order decides which entry relays a packet, is a sequence*)
(* in insertion order.  undefined / null / '' of a string is "", of a port *)
(* is 0, of a URI header is NoUriHdr.  Dates are milliseconds in `now`.    *)
(***************************************************************************)
EXTENDS Integers, Sequences, FiniteSets, TLC

VARIABLES
    registeredUsers,      \* UserManager.registeredUsers : number -> binding
    registrationHistory,  \* UserManager.registrationHistory
    activeCalls,          \* CallManager.activeCalls     : Call-ID -> call
    callHistory,          \* CallManager.callHistory
    activeStreams,        \* RtpProxy.activeStreams, in insertion order
    now,                  \* the clock read by new Date(), in ms
    up,                   \* the process is running (no uncaught exception yet)
    sent,                 \* the SIP datagrams sent by the latest handler, in order
    rtpSent,              \* the RTP datagrams sent by the latest handleRtpPacket
    buffer                \* the text a codec or rewriter function is applied to

vars == <<registeredUsers, registrationHistory, activeCalls, callHistory,
          activeStreams, now, up, sent, rtpSent, buffer>>

(***************************************************************************)
(* Configuration (config.js) and literals of the code.                     *)
(***************************************************************************)
serverAddress == "192.168.0.42"
rtpPort == 10000
callSetup == 30000
extensionsMin == 100
extensionsMax == 110
\* i.toString() on the extension numbers
toString(i) == CASE i = 100 -> "100" [] i = 101 -> "101" [] i = 102 -> "102"
                 [] i = 103 -> "103" [] i = 104 -> "104" [] i = 105 -> "105"
                 [] i = 106 -> "106" [] i = 107 -> "107" [] i = 108 -> "108"
                 [] i = 109 -> "109" [] i = 110 -> "110" [] OTHER -> ""
validExtensions == {toString(i) : i \in extensionsMin..extensionsMax}
maxExpires == 86400
minMediaPort == 1024
maxMediaPort == 65535
maxHistorySize == 1000

(***************************************************************************)
(* Bounds of the model.                                                    *)
(***************************************************************************)
MaxTicks == 1      \* the clock advances at most this many times
MaxRegs == 2       \* REGISTER requests accepted in one behaviour
MaxCalls == 1      \* dialogs (active or in the history) in one behaviour
MaxMultiRegs == 3  \* the same two bounds where three user agents call
MaxMultiCalls == 2
MaxRegRegs == 2    \* REGISTER requests accepted where only the registrar runs
MaxSdpLines == 2   \* lines of an SDP text given to the rewriter
MaxRewrites == 2   \* times the rewriter is applied to its own result
MaxHeaderLines == 2 \* header lines of a message text given to the parser
MaxTrips == 2      \* times a parsed message is serialized and parsed again
MaxAppends == 3    \* records appended to a history that starts below its cap

TickMs == callSetup + 1

(***************************************************************************)
(* Datagram endpoints (rinfo) and the user agents of the environment.      *)
(***************************************************************************)
Endpoint(a, p) == [address |-> a, port |-> p]
UA1 == Endpoint("10.0.0.5", 5061)
UA2 == Endpoint("10.0.0.6", 5061)
UA3 == Endpoint("10.0.0.7", 5061)

Home(n) == CASE n = "100" -> UA1
             [] n = "101" -> UA2
             [] OTHER     -> UA3

(***************************************************************************)
(* Parsed SIP messages (parseSipMessage's result): the first line and the  *)
(* header map, one field per header the code reads, and the body.          *)
(*   From / To : [disp, user], the header `"disp" <sip:user@host>`; disp is*)
(*               the digits of a sip: URI quoted in the display name, user *)
(*               the user part of the bracketed URI ("bob": not digits).   *)
(*   body      : an SDP body seen through what the code reads of it.       *)
(***************************************************************************)
UriHdr(disp, user) == [disp |-> disp, user |-> user]
NoUriHdr == UriHdr("", "")

NoUri == [user |-> "", address |-> "", port |-> 0]
RequestLine(method, uri) == [method |-> method, uri |-> uri, code |-> "", text |-> ""]
StatusLine(code, text) == [method |-> "SIP/2.0", uri |-> NoUri, code |-> code, text |-> text]

\* ok: every section v= o= s= c= t= m= is there and the m= line has 4 parts;
\* media/port: the first m= line; addr: the address of c= and o=.
Sdp(ok, media, port, addr) == [ok |-> ok, media |-> media, port |-> port, addr |-> addr]
NoBody == Sdp(FALSE, "", 0, "")

Msg(line, via, from, to, callId, cseq, contact, ctype, expires, body) ==
    [line |-> line, Via |-> via, From |-> from, To |-> to, CallID |-> callId,
     CSeq |-> cseq, Contact |-> contact, ContentType |-> ctype,
     Expires |-> expires, body |-> body]

Datagram(msg, port, address) == [dst |-> Endpoint(address, port), msg |-> msg]

\* createSipResponse(statusCode, statusText, headers, body): the headers given
\* are emitted as they are, the others are absent.
createSipResponse(code, text, via, from, to, callId, cseq, contact, ctype, expires, body) ==
    Msg(StatusLine(code, text), via, from, to, callId, cseq, contact, ctype, expires, body)

(***************************************************************************)
(* The codec on the text.  A message text is the sequence of its lines     *)
(* (the text split at CRLF): the first line is the sequence of its tokens, *)
(* a line `key: value` is <<key, value>> (both trimmed), a line without a  *)
(* colon is <<text>>, an empty line is <<>>.  A header map is the sequence *)
(* of its <<key, value>> entries in insertion order; a body is the         *)
(* sequence of its lines; a decimal number in a text is the number.        *)
(***************************************************************************)
RECURSIVE parseLines(_, _, _, _, _)
\* the loop of parseSipMessage from line i on
parseLines(lines, i, headers, body, bodyStart) ==
    IF i > Len(lines) THEN [headers |-> headers, body |-> body]
    ELSE IF lines[i] = <<>> THEN parseLines(lines, i + 1, headers, body, TRUE)
    ELSE IF bodyStart THEN parseLines(lines, i + 1, headers, Append(body, lines[i]), TRUE)
    ELSE IF Len(lines[i]) = 2
    THEN LET key == lines[i][1]
             set == IF \E k \in 1..Len(headers) : headers[k][1] = key
                    THEN [k \in 1..Len(headers) |->
                            IF headers[k][1] = key THEN lines[i] ELSE headers[k]]
                    ELSE Append(headers, lines[i])
         IN  parseLines(lines, i + 1, set, body, FALSE)
    ELSE parseLines(lines, i + 1, headers, body, FALSE)

parseSipMessage(message) ==
    LET r == parseLines(message, 2, <<>>, <<>>, FALSE)
    IN  [firstLine |-> message[1], headers |-> r.headers, body |-> r.body]

\* createSipResponse(statusCode, statusText, headers, body) as a text;
\* body.length counts the characters of the lines and the CRLFs between them
createSipResponseText(statusCode, statusText, headers, body) ==
    LET chars(line) == CASE line = <<"v=0">> -> 3
                         [] line = <<"s=-">> -> 3
                         [] OTHER -> 5
        length == IF Len(body) = 1 THEN chars(body[1])
                  ELSE chars(body[1]) + 2 + chars(body[2])
    IN  <<(<<"SIP/2.0", statusCode>> \o statusText)>>
        \o headers
        \o (IF body # <<>> THEN <<(<<"Content-Length", length>>)>> ELSE <<>>)
        \o <<(<<>>)>>
        \o body

\* the five headers every error response echoes
ErrorResponse(code, text, m) ==
    createSipResponse(code, text, m.Via, m.From, m.To, m.CallID, m.CSeq, "", "", "", NoBody)

(***************************************************************************)
(* Header values of the environment.                                       *)
(***************************************************************************)
ViaOf(n) == CASE n = "100" -> "SIP/2.0/UDP 10.0.0.5:5061;branch=z9hG4bK100"
              [] n = "101" -> "SIP/2.0/UDP 10.0.0.6:5061;branch=z9hG4bK101"
              [] OTHER     -> "SIP/2.0/UDP 10.0.0.7:5061;branch=z9hG4bK102"
ServerVia == "SIP/2.0/UDP 192.168.0.42:5060"
BadVia == "SIP/2.0/TCP host"
ContactOf(n) == CASE n = "100" -> "<sip:100@192.168.1.100:5060>"
                  [] n = "101" -> "<sip:101@192.168.1.101:5060>"
                  [] OTHER     -> "<sip:102@192.168.1.102:5060>"
CallIds == {"a", "a_reverse"}
BadCallId == "bad id"
BadCSeq == "one INVITE"

(***************************************************************************)
(* SipValidator                                                            *)
(***************************************************************************)
\* /^[a-zA-Z0-9._-]+(?:@[a-zA-Z0-9._-]+)?(?:-[a-zA-Z0-9._-]+)?$/
callIdPattern(s) == s \in {"a", "a_reverse", "b", "a@host"}
\* /^\d+\s+[A-Z]+$/
cseqPattern(s) == s \in {"1 REGISTER", "1 INVITE", "2 BYE", "1 ACK"}
\* /^SIP\/2\.0\/UDP\s+[^:]+:\d+(?:;[^;]*)*$/
viaPattern(s) == s \in {ViaOf("100"), ViaOf("101"), ViaOf("102"), ServerVia}

HeaderMissing(m, h) == IF h \in {"From", "To"} THEN m[h] = NoUriHdr ELSE m[h] = ""

validateHeaders(m, requiredHeaders) ==
    /\ \A h \in requiredHeaders : ~HeaderMissing(m, h)
    /\ (m.CallID # "" => callIdPattern(m.CallID))
    /\ (m.CSeq # "" => cseqPattern(m.CSeq))
    /\ (m.Via # "" => viaPattern(m.Via))

\* extractUri: the content of the first <...>; the model keeps its user part
extractUri(header) == header.user

\* validateSipUri: /^sip:(\d+)@.../ and the number is a valid extension
validateSipUri(user) == user \in validExtensions

\* parseInt on the Expires values of the environment: the digits the string
\* starts with; NaN is -1 (rejected like every negative number)
parseInt(s) == CASE s = "0"     -> 0
                 [] s = "60"    -> 60
                 [] s = "3600"  -> 3600
                 [] s = "86400" -> 86400
                 [] s = "86401" -> 86401
                 [] s = "60s"   -> 60
                 [] OTHER       -> 0 - 1

validateRegisterRequest(m) ==
    /\ validateHeaders(m, {"To", "From", "CallID", "CSeq", "Contact"})
    /\ validateSipUri(extractUri(m.To))
    /\ validateSipUri(extractUri(m.From))
    /\ extractUri(m.To) = extractUri(m.From)
    /\ (m.Expires # "" =>
            /\ parseInt(m.Expires) >= 0
            /\ parseInt(m.Expires) <= maxExpires)

validateSdp(sdp) ==
    /\ sdp # NoBody
    /\ sdp.ok
    /\ sdp.media = "audio"
    /\ sdp.port >= minMediaPort
    /\ sdp.port <= maxMediaPort

IsSdp(m) == m.body # NoBody /\ m.ContentType = "application/sdp"

\* validateInviteRequest without its `Cannot call yourself` check
validateInviteRequestSelfCall(m) ==
    /\ validateHeaders(m, {"To", "From", "CallID", "CSeq", "Contact"})
    /\ validateSipUri(extractUri(m.To))
    /\ validateSipUri(extractUri(m.From))
    /\ (IsSdp(m) => validateSdp(m.body))

validateInviteRequest(m) ==
    /\ validateHeaders(m, {"To", "From", "CallID", "CSeq", "Contact"})
    /\ validateSipUri(extractUri(m.To))
    /\ validateSipUri(extractUri(m.From))
    /\ extractUri(m.To) # extractUri(m.From)
    /\ (IsSdp(m) => validateSdp(m.body))

\* extractNumber: the first /sip:(\d+)@/ of the whole header
extractNumber(header) == IF header.disp # "" THEN header.disp ELSE header.user

(***************************************************************************)
(* Maps                                                                    *)
(***************************************************************************)
EmptyMap == [k \in {} |-> 0]
MapSet(f, k, v) == [x \in (DOMAIN f) \cup {k} |-> IF x = k THEN v ELSE f[x]]
MapDelete(f, k) == [x \in (DOMAIN f) \ {k} |-> f[x]]

(***************************************************************************)
(* UserManager                                                             *)
(***************************************************************************)
userAddToHistory(history, entry) ==
    LET h == Append(history, entry)
    IN  IF Len(h) > maxHistorySize
        THEN SubSeq(h, Len(h) - maxHistorySize + 1, Len(h))
        ELSE h

\* contactHeader.replace(/^<|>.*$/g, ''): the Contact without its brackets
\* and without what follows them
contactUri(contact) ==
    CASE contact = "<sip:100@192.168.1.100:5060>" -> "sip:100@192.168.1.100:5060"
      [] contact = "<sip:101@192.168.1.101:5060>" -> "sip:101@192.168.1.101:5060"
      [] contact = "<sip:102@192.168.1.102:5060>" -> "sip:102@192.168.1.102:5060"
      [] OTHER -> contact

\* registerUser without the merge with the existing binding
registerUserDataFresh(users, number, uri, address, port, expires) ==
    [number |-> number, uri |-> uri, address |-> address, port |-> port,
     expires |-> expires, expiresAt |-> now + expires * 1000,
     registeredAt |-> now, registrationCount |-> 1]

\* the userData registerUser stores for `number`
registerUserData(users, number, uri, address, port, expires) ==
    [number |-> number, uri |-> uri, address |-> address, port |-> port,
     expires |-> expires, expiresAt |-> now + expires * 1000,
     registeredAt |-> IF number \in DOMAIN users THEN users[number].registeredAt ELSE now,
     registrationCount |-> IF number \in DOMAIN users
                           THEN users[number].registrationCount + 1 ELSE 1]

registerUser(number, uri, address, port, expires) ==
    /\ registeredUsers' = MapSet(registeredUsers, number,
            registerUserData(registeredUsers, number, uri, address, port, expires))
    /\ registrationHistory' = userAddToHistory(registrationHistory,
            [action |-> "REGISTER", number |-> number, address |-> address,
             port |-> port, expires |-> expires])

\* getUser: the binding or undefined; no expiry check
getUser(users, number) == IF number \in DOMAIN users THEN {users[number]} ELSE {}

\* cleanup that spares a binding for one more tick of the clock
ExpiredLate(user) == now > user.expiresAt + TickMs

Expired(user) == now > user.expiresAt

\* cleanup that also removes the bindings expiring at this very instant
userCleanupEager(users) ==
    [n \in {k \in DOMAIN users : now < users[k].expiresAt} |-> users[n]]

userCleanup(users) ==
    [n \in {k \in DOMAIN users : ~Expired(users[k])} |-> users[n]]

(***************************************************************************)
(* CallManager                                                             *)
(***************************************************************************)
NullTime == 0 - 1

createCall(callId, fromNumber, toNumber, fromAddress, fromPort) ==
    [callId |-> callId, fromNumber |-> fromNumber, toNumber |-> toNumber,
     fromAddress |-> fromAddress, fromPort |-> fromPort,
     toAddress |-> "", toPort |-> 0, fromRtpPort |-> 0, toRtpPort |-> 0,
     state |-> "INITIATED", inviteTime |-> now, answerTime |-> NullTime,
     endTime |-> NullTime, duration |-> 0, terminating |-> FALSE,
     terminationReason |-> "",
     originalVia |-> "", originalFrom |-> NoUriHdr, originalTo |-> NoUriHdr,
     originalCSeq |-> "", originalContact |-> "", waitingForAck |-> FALSE]

setTarget(call, toAddress, toPort) ==
    [call EXCEPT !.toAddress = toAddress, !.toPort = toPort, !.state = "RINGING"]

\* updateCallState(callId, state, {}) on a call that exists
updateCallState(call, state) == [call EXCEPT !.state = state]

\* addToHistory that keeps the oldest records of a full history
callAddToHistoryKeepOldest(history, call) ==
    LET h == Append(history, call)
    IN  IF Len(h) > maxHistorySize THEN SubSeq(h, 1, maxHistorySize) ELSE h

callAddToHistory(history, call) ==
    LET h == Append(history, call)
    IN  IF Len(h) > maxHistorySize
        THEN SubSeq(h, Len(h) - maxHistorySize + 1, Len(h))
        ELSE h

\* the call as endCall leaves it before it goes to the history
endCallData(call, reason) ==
    [call EXCEPT !.state = "TERMINATED", !.endTime = now, !.terminating = TRUE,
                 !.terminationReason = reason,
                 !.duration = IF call.answerTime # NullTime
                              THEN (now - call.answerTime) \div 1000 ELSE @]

\* a history record, with the fields getCallHistory reads of it
endCallRecord(call, reason) ==
    LET c == endCallData(call, reason)
    IN  [callId |-> c.callId, fromNumber |-> c.fromNumber, toNumber |-> c.toNumber,
         state |-> c.state, inviteTime |-> c.inviteTime, answerTime |-> c.answerTime,
         endTime |-> c.endTime, duration |-> c.duration,
         terminationReason |-> c.terminationReason]

\* endCall without the delete from activeCalls
endCallKeepActive(calls, history, callId, reason) ==
    IF callId \notin DOMAIN calls
    THEN <<calls, history>>
    ELSE <<[calls EXCEPT ![callId] = endCallData(@, reason)],
           callAddToHistory(history, endCallRecord(calls[callId], reason))>>

\* endCall(callId, reason) on the maps: <<activeCalls, callHistory>> afterwards
endCall(calls, history, callId, reason) ==
    IF callId \notin DOMAIN calls
    THEN <<calls, history>>
    ELSE <<MapDelete(calls, callId),
           callAddToHistory(history, endCallRecord(calls[callId], reason))>>

isNumberBusy(calls, number) ==
    \E c \in DOMAIN calls :
        /\ calls[c].fromNumber = number \/ calls[c].toNumber = number
        /\ calls[c].state \in {"RINGING", "ESTABLISHED"}

\* cleanup() without its test of the state
callsToRemoveAnyState(calls) ==
    {c \in DOMAIN calls : now - calls[c].inviteTime > callSetup}

\* the Call-IDs cleanup() ends with reason TIMEOUT
callsToRemove(calls) ==
    {c \in DOMAIN calls : now - calls[c].inviteTime > callSetup
                          /\ calls[c].state = "INITIATED"}

RECURSIVE endAll(_, _, _)
endAll(calls, history, ids) ==
    IF ids = {} THEN <<calls, history>>
    ELSE LET c == CHOOSE x \in ids : TRUE
             r == endCall(calls, history, c, "TIMEOUT")
         IN  endAll(r[1], r[2], ids \ {c})

(***************************************************************************)
(* RtpProxy                                                                *)
(***************************************************************************)
Stream(key, fromAddress, fromPort, toAddress, toPort) ==
    [key |-> key, fromAddress |-> fromAddress, fromPort |-> fromPort,
     toAddress |-> toAddress, toPort |-> toPort]

\* callId + '_reverse'
Reverse(callId) == CASE callId = "a" -> "a_reverse"
                     [] callId = "a_reverse" -> "a_reverse_reverse"
                     [] callId = "b" -> "b_reverse"
                     [] OTHER -> "other_reverse"

StreamKeys(streams) == {streams[i].key : i \in 1..Len(streams)}

\* Map.set: an existing key keeps its place, a new key goes last
StreamSet(streams, s) ==
    IF s.key \in StreamKeys(streams)
    THEN [i \in 1..Len(streams) |-> IF streams[i].key = s.key THEN s ELSE streams[i]]
    ELSE Append(streams, s)

StreamDelete(streams, key) == SelectSeq(streams, LAMBDA s : s.key # key)

addStream(streams, callId, fromAddress, fromPort, toAddress, toPort) ==
    StreamSet(StreamSet(streams, Stream(callId, fromAddress, fromPort, toAddress, toPort)),
              Stream(Reverse(callId), toAddress, toPort, fromAddress, fromPort))

removeStream(streams, callId) == StreamDelete(StreamDelete(streams, callId), Reverse(callId))

\* modifySdp on the abstract body: c= and o= address, m=audio port
modifySdp(sdp) ==
    [sdp EXCEPT !.addr = IF @ # "" THEN serverAddress ELSE @,
                !.port = IF sdp.media = "audio" THEN rtpPort ELSE @]

\* body.match(/m=audio ([0-9]+)/)
rtpPortMatch(sdp) == sdp.media = "audio"

(***************************************************************************)
(* modifySdp on the text.  An SDP text is the sequence of its lines, a line*)
(* the sequence of its tokens (the line split at single spaces).  None of  *)
(* the three patterns matches across a line end, and the first two take    *)
(* the rest of the line, so each acts on a line at most once.              *)
(***************************************************************************)
\* /[0-9]+/ at the start of a token replaced by the server's RTP port
sdpWithServerPort(tok) == CASE tok \in {"5", "40000", "41000", "10000"} -> "10000"
                            [] tok \in {"40000/2", "10000/2"} -> "10000/2"
                            [] OTHER -> tok

sdpFirst(I) == CHOOSE i \in I : \A j \in I : i <= j

\* a connection rewrite that keeps what followed the address
sdpConnectionKeepRest(line) ==
    LET I == {i \in 1..(Len(line) - 2) : line[i] = "c=IN" /\ line[i + 1] = "IP4"}
    IN  IF I = {} THEN line
        ELSE SubSeq(line, 1, sdpFirst(I)) \o <<"IP4", serverAddress>>
             \o SubSeq(line, sdpFirst(I) + 2, Len(line))

\* line.replace(/c=IN IP4 [^\r\n]+/, `c=IN IP4 ${serverAddress}`)
sdpConnection(line) ==
    LET I == {i \in 1..(Len(line) - 2) : line[i] = "c=IN" /\ line[i + 1] = "IP4"}
    IN  IF I = {} THEN line
        ELSE SubSeq(line, 1, sdpFirst(I)) \o <<"IP4", serverAddress>>

\* /o=[^\s]+ [^\s]+ [^\s]+ IN IP4 [^\r\n]+/: the leftmost match starts at a
\* token that holds `o=` and more; in the match, the first /IN IP4 [^\r\n]+/
\* (a token that ends with `IN`, then IP4 and more) becomes IN IP4 and the
\* server's address
sdpOrigin(line) ==
    LET I == {i \in 1..(Len(line) - 5) : /\ line[i] \in {"o=alice", "o=a"}
                                         /\ line[i + 3] = "IN"
                                         /\ line[i + 4] = "IP4"}
        J == {j \in 1..(Len(line) - 2) : /\ j >= sdpFirst(I)
                                         /\ line[j] \in {"IN", "c=IN"}
                                         /\ line[j + 1] = "IP4"}
    IN  IF I = {} THEN line
        ELSE SubSeq(line, 1, sdpFirst(J)) \o <<"IP4", serverAddress>>

\* line.replace(/m=audio [0-9]+/g, `m=audio ${serverPort}`)
sdpMedia(line) ==
    [i \in 1..Len(line) |->
        IF i > 1 /\ line[i - 1] = "m=audio" THEN sdpWithServerPort(line[i]) ELSE line[i]]

\* modifySdp(sdp, callId) on the text: the three replacements in their order
modifySdpText(text) ==
    LET c == [i \in 1..Len(text) |-> sdpConnection(text[i])]
        o == [i \in 1..Len(text) |-> sdpOrigin(c[i])]
    IN  [i \in 1..Len(text) |-> sdpMedia(o[i])]

(***************************************************************************)
(* REGISTER                                                                *)
(***************************************************************************)
handleRegister(m, rinfo) ==
    /\ up
    /\ IF ~validateRegisterRequest(m)
       THEN /\ sent' = <<Datagram(ErrorResponse("400", "Bad Request", m),
                                  rinfo.port, rinfo.address)>>
            /\ UNCHANGED <<registeredUsers, registrationHistory>>
       ELSE LET expiresHeader == IF m.Expires # "" THEN m.Expires ELSE "3600"
                number == extractNumber(m.To)
                expires == parseInt(expiresHeader)
            IN  /\ registerUser(number, contactUri(m.Contact), rinfo.address, rinfo.port,
                                expires)
                /\ sent' = <<Datagram(
                        createSipResponse("200", "OK", m.Via, m.From, m.To, m.CallID,
                                          m.CSeq, m.Contact, "", expiresHeader, NoBody),
                        rinfo.port, rinfo.address)>>
    /\ UNCHANGED <<activeCalls, callHistory, activeStreams, now, up, rtpSent, buffer>>

\* handleRegister when sipServer.send throws inside the try block: the catch
\* block reads `parsed`, a const of the try block and out of scope there, so
\* it throws a ReferenceError before it builds the 500; the uncaughtException
\* handler exits the process.
handleRegisterThrow(m, rinfo) ==
    /\ up
    /\ IF ~validateRegisterRequest(m)
       THEN UNCHANGED <<registeredUsers, registrationHistory>>
       ELSE registerUser(extractNumber(m.To), contactUri(m.Contact), rinfo.address, rinfo.port,
                         parseInt(IF m.Expires # "" THEN m.Expires ELSE "3600"))
    /\ sent' = <<>>
    /\ up' = FALSE
    /\ UNCHANGED <<activeCalls, callHistory, activeStreams, now, rtpSent, buffer>>

(***************************************************************************)
(* INVITE                                                                  *)
(***************************************************************************)
\* the dialog handleInvite leaves in activeCalls: createCall, setTarget, the
\* preserved headers, then fromRtpPort when the body is SDP with m=audio
inviteCall(m, rinfo, targetUser) ==
    LET created == createCall(m.CallID, extractNumber(m.From), extractNumber(m.To),
                              rinfo.address, rinfo.port)
        ringing == updateCallState(setTarget(created, targetUser.address, targetUser.port),
                                   "RINGING")
        kept == [ringing EXCEPT !.originalVia = m.Via, !.originalFrom = m.From,
                                !.originalTo = m.To, !.originalCSeq = m.CSeq,
                                !.originalContact = m.Contact]
    IN  IF IsSdp(m) /\ rtpPortMatch(m.body)
        THEN [updateCallState(kept, "RINGING") EXCEPT !.fromRtpPort = m.body.port]
        ELSE kept

\* the INVITE sent to the callee
inviteToTarget(m, targetUser) ==
    Msg(RequestLine("INVITE", [user |-> extractNumber(m.To),
                               address |-> targetUser.address, port |-> targetUser.port]),
        ServerVia, m.From, m.To, m.CallID, m.CSeq, m.Contact, m.ContentType, "",
        IF IsSdp(m) THEN modifySdp(m.body) ELSE m.body)

\* both parties are looked up with getUser
inviteRegistered(users, fromNumber, toNumber) ==
    getUser(users, toNumber) # {} /\ getUser(users, fromNumber) # {}

\* the busy check of handleInvite
inviteBusy(calls, fromNumber, toNumber) == isNumberBusy(calls, toNumber)

handleInvite(m, rinfo) ==
    /\ up
    /\ LET fromNumber == extractNumber(m.From)
           toNumber == extractNumber(m.To)
       IN  IF ~validateInviteRequest(m)
           THEN /\ sent' = <<Datagram(ErrorResponse("400", "Bad Request", m),
                                      rinfo.port, rinfo.address)>>
                /\ UNCHANGED activeCalls
           ELSE IF ~inviteRegistered(registeredUsers, fromNumber, toNumber)
           THEN /\ sent' = <<Datagram(ErrorResponse("404", "Not Found", m),
                                      rinfo.port, rinfo.address)>>
                /\ UNCHANGED activeCalls
           ELSE IF inviteBusy(activeCalls, fromNumber, toNumber)
           THEN /\ sent' = <<Datagram(ErrorResponse("486", "Busy Here", m),
                                      rinfo.port, rinfo.address)>>
                /\ UNCHANGED activeCalls
           ELSE LET targetUser == registeredUsers[toNumber]
                IN  /\ activeCalls' = MapSet(activeCalls, m.CallID,
                                             inviteCall(m, rinfo, targetUser))
                    /\ sent' = <<Datagram(ErrorResponse("100", "Trying", m),
                                          rinfo.port, rinfo.address),
                                 Datagram(inviteToTarget(m, targetUser),
                                          targetUser.port, targetUser.address)>>
    /\ UNCHANGED <<registeredUsers, registrationHistory, callHistory, activeStreams,
                   now, up, rtpSent, buffer>>

(***************************************************************************)
(* BYE                                                                     *)
(***************************************************************************)
\* `SIP/2.0/UDP ${rinfo.address}:${rinfo.port}`
ViaFor(rinfo) == CASE rinfo = UA1 -> "SIP/2.0/UDP 10.0.0.5:5061"
                   [] rinfo = UA2 -> "SIP/2.0/UDP 10.0.0.6:5061"
                   [] OTHER       -> "SIP/2.0/UDP 10.0.0.7:5061"

\* where handleBye sends the forwarded BYE
byeTarget(call, rinfo) == Endpoint(call.toAddress, call.toPort)

byeMessage(m, call, rinfo) ==
    Msg(RequestLine("BYE", [user |-> "", address |-> call.toAddress, port |-> call.toPort]),
        ViaFor(rinfo), m.From, m.To, m.CallID, m.CSeq, "", "", "", NoBody)

\* handleBye answering only the BYE of a dialog it knows
handleByeKnownOnly(m, rinfo) ==
    /\ up
    /\ LET callId == m.CallID
           ok == Datagram(ErrorResponse("200", "OK", m), rinfo.port, rinfo.address)
       IN  IF callId \in DOMAIN activeCalls
           THEN LET call == activeCalls[callId]
                    target == byeTarget(call, rinfo)
                IN  /\ activeCalls' = [activeCalls EXCEPT ![callId].terminating = TRUE]
                    /\ activeStreams' = removeStream(activeStreams, callId)
                    /\ sent' = <<Datagram(byeMessage(m, call, rinfo),
                                          target.port, target.address), ok>>
           ELSE /\ sent' = <<>>
                /\ UNCHANGED <<activeCalls, activeStreams>>
    /\ UNCHANGED <<registeredUsers, registrationHistory, callHistory, now, up, rtpSent,
                   buffer>>

handleBye(m, rinfo) ==
    /\ up
    /\ LET callId == m.CallID
           ok == Datagram(ErrorResponse("200", "OK", m), rinfo.port, rinfo.address)
       IN  IF callId \in DOMAIN activeCalls
           THEN LET call == activeCalls[callId]
                    target == byeTarget(call, rinfo)
                IN  /\ activeCalls' = [activeCalls EXCEPT ![callId].terminating = TRUE]
                    /\ activeStreams' = removeStream(activeStreams, callId)
                    /\ sent' = <<Datagram(byeMessage(m, call, rinfo),
                                          target.port, target.address), ok>>
           ELSE /\ sent' = <<ok>>
                /\ UNCHANGED <<activeCalls, activeStreams>>
    /\ UNCHANGED <<registeredUsers, registrationHistory, callHistory, now, up, rtpSent,
                   buffer>>

(***************************************************************************)
(* ACK                                                                     *)
(***************************************************************************)
\* `SIP/2.0/UDP ${serverAddress}:${port};branch=${branch}`, the branch taken
\* from the received Via or, when it has none, a random one
AckVia(via) == CASE via = ViaOf("100") -> "SIP/2.0/UDP 192.168.0.42:5060;branch=z9hG4bK100"
                 [] via = ViaOf("101") -> "SIP/2.0/UDP 192.168.0.42:5060;branch=z9hG4bK101"
                 [] via = ViaOf("102") -> "SIP/2.0/UDP 192.168.0.42:5060;branch=z9hG4bK102"
                 [] OTHER -> "SIP/2.0/UDP 192.168.0.42:5060;branch=z9hG4bK-random"

ackMessage(m, call) ==
    Msg(RequestLine("ACK", [user |-> call.toNumber, address |-> call.toAddress,
                            port |-> call.toPort]),
        AckVia(m.Via), m.From, m.To, m.CallID, m.CSeq, m.Contact, "", "", m.body)

handleAck(m, rinfo) ==
    /\ up
    /\ IF m.CallID \in DOMAIN activeCalls
       THEN LET call == activeCalls[m.CallID]
            IN  IF m.Via = ""
                THEN \* originalVia.match on undefined: TypeError, uncaughtException
                     /\ up' = FALSE
                     /\ sent' = <<>>
                ELSE /\ sent' = <<Datagram(ackMessage(m, call), call.toPort, call.toAddress)>>
                     /\ UNCHANGED up
       ELSE /\ sent' = <<>>
            /\ UNCHANGED up
    /\ UNCHANGED <<registeredUsers, registrationHistory, activeCalls, callHistory,
                   activeStreams, now, rtpSent, buffer>>

(***************************************************************************)
(* Responses                                                               *)
(***************************************************************************)
Includes200OK(line) == line.code = "200" /\ line.text = "OK"
IncludesFailure(line) == line.code \in {"404", "486", "487"}

\* the Contact of the relayed 200 OK
okContact(call) == "<sip:101@192.168.0.42:5060>"

\* the 200 OK relayed to the caller
okResponse(m, call) ==
    createSipResponse("200", "OK",
        IF call.originalVia # "" THEN call.originalVia ELSE m.Via,
        IF call.originalFrom # NoUriHdr THEN call.originalFrom ELSE m.From,
        IF call.originalTo # NoUriHdr THEN call.originalTo ELSE m.To,
        m.CallID,
        IF call.originalCSeq # "" THEN call.originalCSeq ELSE m.CSeq,
        okContact(call), m.ContentType, "",
        IF IsSdp(m) THEN modifySdp(m.body) ELSE m.body)

\* the dialog after the 200 OK was relayed
okCall(call) == [updateCallState(call, "ESTABLISHED") EXCEPT !.waitingForAck = TRUE]

\* the stream table with the caller's signalling port in place of its RTP port
okStreamsSignalling(streams, m, call, rinfo) ==
    IF IsSdp(m) /\ rtpPortMatch(m.body) /\ call.fromRtpPort # 0
    THEN addStream(streams, m.CallID, call.fromAddress, call.fromPort,
                   rinfo.address, m.body.port)
    ELSE streams

\* the stream table after a 200 OK for `call` arrived from rinfo
okStreams(streams, m, call, rinfo) ==
    IF IsSdp(m) /\ rtpPortMatch(m.body) /\ call.fromRtpPort # 0
    THEN addStream(streams, m.CallID, call.fromAddress, call.fromRtpPort,
                   rinfo.address, m.body.port)
    ELSE streams

handleResponse(m, rinfo) ==
    /\ up
    /\ LET callId == m.CallID
       IN  IF callId \notin DOMAIN activeCalls
           THEN /\ sent' = <<>>
                /\ UNCHANGED <<activeCalls, callHistory, activeStreams>>
           ELSE LET call == activeCalls[callId]
                IN  IF Includes200OK(m.line) /\ call.terminating
                    THEN LET r == endCall(activeCalls, callHistory, callId, "NORMAL")
                         IN  /\ activeCalls' = r[1]
                             /\ callHistory' = r[2]
                             /\ sent' = <<>>
                             /\ UNCHANGED activeStreams
                    ELSE IF Includes200OK(m.line)
                    THEN /\ activeStreams' = okStreams(activeStreams, m, call, rinfo)
                         /\ sent' = <<Datagram(okResponse(m, call),
                                               call.fromPort, call.fromAddress)>>
                         /\ activeCalls' = [activeCalls EXCEPT ![callId] = okCall(call)]
                         /\ UNCHANGED callHistory
                    ELSE IF IncludesFailure(m.line)
                    THEN /\ sent' = <<Datagram(
                                createSipResponse(m.line.code, m.line.text, m.Via, m.From,
                                                  m.To, callId, m.CSeq, "", "", "", NoBody),
                                call.fromPort, call.fromAddress)>>
                         /\ UNCHANGED <<activeCalls, callHistory, activeStreams>>
                    ELSE /\ sent' = <<>>
                         /\ UNCHANGED <<activeCalls, callHistory, activeStreams>>
    /\ UNCHANGED <<registeredUsers, registrationHistory, now, up, rtpSent, buffer>>

(***************************************************************************)
(* RTP relay                                                               *)
(***************************************************************************)
\* handleRtpPacket's scan with the two sends exchanged: the packet goes back
\* to the side it came from
relayEcho(streams, i, message, rinfo) ==
    IF \E k \in i..Len(streams) :
           \/ rinfo.address = streams[k].fromAddress /\ rinfo.port = streams[k].fromPort
           \/ rinfo.address = streams[k].toAddress /\ rinfo.port = streams[k].toPort
    THEN <<[dst |-> rinfo, payload |-> message]>>
    ELSE <<>>

RECURSIVE relay(_, _, _, _)
\* handleRtpPacket's scan from entry i on: the packets it sends
relay(streams, i, message, rinfo) ==
    IF i > Len(streams) THEN <<>>
    ELSE IF rinfo.address = streams[i].fromAddress /\ rinfo.port = streams[i].fromPort
    THEN <<[dst |-> Endpoint(streams[i].toAddress, streams[i].toPort), payload |-> message]>>
    ELSE IF rinfo.address = streams[i].toAddress /\ rinfo.port = streams[i].toPort
    THEN <<[dst |-> Endpoint(streams[i].fromAddress, streams[i].fromPort), payload |-> message]>>
    ELSE relay(streams, i + 1, message, rinfo)

handleRtpPacket(message, rinfo) ==
    /\ up
    /\ rtpSent' = relay(activeStreams, 1, message, rinfo)
    /\ sent' = <<>>
    /\ UNCHANGED <<registeredUsers, registrationHistory, activeCalls, callHistory,
                   activeStreams, now, up, buffer>>

(***************************************************************************)
(* Timers, the clock and the administration API                            *)
(***************************************************************************)
UserCleanup ==
    /\ up
    /\ registeredUsers' = userCleanup(registeredUsers)
    /\ sent' = <<>>
    /\ UNCHANGED <<registrationHistory, activeCalls, callHistory, activeStreams, now, up,
                   rtpSent, buffer>>

CallCleanup ==
    /\ up
    /\ LET r == endAll(activeCalls, callHistory, callsToRemove(activeCalls))
       IN  /\ activeCalls' = r[1]
           /\ callHistory' = r[2]
    /\ sent' = <<>>
    /\ UNCHANGED <<registeredUsers, registrationHistory, activeStreams, now, up, rtpSent,
                   buffer>>

Advance ==
    /\ up
    /\ now + TickMs <= MaxTicks * TickMs
    /\ now' = now + TickMs
    /\ sent' = <<>>
    /\ UNCHANGED <<registeredUsers, registrationHistory, activeCalls, callHistory,
                   activeStreams, up, rtpSent, buffer>>

\* POST /api/admin/clear-calls
ClearAllCalls ==
    /\ up
    /\ activeCalls' = EmptyMap
    /\ callHistory' = <<>>
    /\ sent' = <<>>
    /\ UNCHANGED <<registeredUsers, registrationHistory, activeStreams, now, up, rtpSent,
                   buffer>>

(***************************************************************************)
(* The environment: the datagrams the user agents send.                    *)
(***************************************************************************)
RegisterMsg(to, from, expires, contact) ==
    Msg(RequestLine("REGISTER", NoUri), ViaOf(from), UriHdr("", from), UriHdr("", to),
        "a@host", "1 REGISTER", contact, "", expires, NoBody)

InviteMsg(from, to, callId, via, ctype, body) ==
    Msg(RequestLine("INVITE", NoUri), via, UriHdr("", from), UriHdr("", to),
        callId, "1 INVITE", ContactOf(from), ctype, "", body)

Offer(n) == Sdp(TRUE, "audio", 40000, Home(n).address)
Answer == Sdp(TRUE, "audio", 41000, "10.0.0.6")

ByeMsg(callId, rinfo) ==
    Msg(RequestLine("BYE", NoUri), ViaFor(rinfo), UriHdr("", "100"), UriHdr("", "101"),
        callId, "2 BYE", "", "", "", NoBody)

AckMsg(callId, via) ==
    Msg(RequestLine("ACK", NoUri), via, UriHdr("", "100"), UriHdr("", "101"),
        callId, "1 ACK", "", "", "", NoBody)

ResponseMsg(code, text, callId, cseq, ctype, body) ==
    Msg(StatusLine(code, text), ServerVia, UriHdr("", "100"), UriHdr("", "101"),
        callId, cseq, ContactOf("101"), ctype, "", body)

\* The environment stops registering, or opening dialogs, at the bounds.
RegisterBudget(m, max) ==
    validateRegisterRequest(m) => Len(registrationHistory) < max

InviteAccepted(m) ==
    /\ validateInviteRequest(m)
    /\ inviteRegistered(registeredUsers, extractNumber(m.From), extractNumber(m.To))
    /\ ~inviteBusy(activeCalls, extractNumber(m.From), extractNumber(m.To))

InviteBudget(m, max) ==
    (InviteAccepted(m) /\ m.CallID \notin DOMAIN activeCalls)
        => Cardinality(DOMAIN activeCalls) + Len(callHistory) < max

Register(msgs, max) ==
    \E m \in msgs : RegisterBudget(m, max) /\ handleRegister(m, Home(m.From.user))

Invite(msgs, max) ==
    \E m \in msgs : InviteBudget(m, max) /\ handleInvite(m, Home(m.From.user))

Bye(ids, sources) ==
    \E c \in ids, rinfo \in sources : handleBye(ByeMsg(c, rinfo), rinfo)

Ack(ids, vias) ==
    \E c \in ids, via \in vias : handleAck(AckMsg(c, via), UA1)

Response(msgs, sources) ==
    \E m \in msgs, rinfo \in sources : handleResponse(m, rinfo)

(***************************************************************************)
(* Spec: two user agents, 100 and 101, one Call-ID, and the clock.         *)
(***************************************************************************)
Agents == {"100", "101"}
AgentSources == {UA1, UA2}

RegisterMsgs == {RegisterMsg(n, n, e, ContactOf(n)) : n \in Agents, e \in {"", "0"}}

InviteMsgs ==
    {InviteMsg(p[1], p[2], "a", ViaOf(p[1]), "application/sdp", Offer(p[1])) :
        p \in {q \in Agents \X Agents : q[1] # q[2]}}
    \cup {InviteMsg("100", "101", "a", ViaOf("100"), "", NoBody)}

ResponseMsgs ==
    {ResponseMsg("200", "OK", "a", "1 INVITE", "application/sdp", Answer),
     ResponseMsg("200", "OK", "a", "2 BYE", "", NoBody),
     ResponseMsg("486", "Busy Here", "a", "1 INVITE", "", NoBody),
     ResponseMsg("180", "Ringing", "a", "1 INVITE", "", NoBody)}

RtpSources == {Endpoint("10.0.0.5", 40000), Endpoint("10.0.0.6", 41000)}

HandleRegister == Register(RegisterMsgs, MaxRegs)
HandleInvite == Invite(InviteMsgs, MaxCalls)
HandleBye == Bye({"a"}, AgentSources)
HandleAck == Ack({"a"}, {ViaOf("100"), ""})
HandleResponse == Response(ResponseMsgs, AgentSources)
HandleRtpPacket == \E rinfo \in RtpSources : handleRtpPacket("P", rinfo)

Init ==
    /\ registeredUsers = EmptyMap
    /\ registrationHistory = <<>>
    /\ activeCalls = EmptyMap
    /\ callHistory = <<>>
    /\ activeStreams = <<>>
    /\ now = 0
    /\ up = TRUE
    /\ sent = <<>>
    /\ rtpSent = <<>>
    /\ buffer = <<>>

Next ==
    \/ HandleRegister
    \/ HandleInvite
    \/ HandleBye
    \/ HandleAck
    \/ HandleResponse
    \/ HandleRtpPacket
    \/ UserCleanup
    \/ CallCleanup
    \/ Advance

Spec == Init /\ [][Next]_vars

(***************************************************************************)
(* SpecMulti: three user agents and two Call-IDs, one the other's          *)
(* `_reverse`; no clock, and the administration API clears the calls.      *)
(***************************************************************************)
MultiAgents == {"100", "101", "102"}
MultiSources == {UA2, UA3}

MultiRegisterMsgs == {RegisterMsg(n, n, "", ContactOf(n)) : n \in MultiAgents}

MultiInviteMsgs ==
    {InviteMsg("100", t, c, ViaOf("100"), "application/sdp", Offer("100")) :
        t \in {"101", "102"}, c \in CallIds}

MultiResponseMsgs ==
    {ResponseMsg("200", "OK", c, "1 INVITE", "application/sdp", Answer) : c \in CallIds}

MultiRegister == Register(MultiRegisterMsgs, MaxMultiRegs)
MultiInvite == Invite(MultiInviteMsgs, MaxMultiCalls)
MultiBye == Bye(CallIds, {UA1})
MultiResponse == Response(MultiResponseMsgs, MultiSources)

NextMulti ==
    \/ MultiRegister
    \/ MultiInvite
    \/ MultiBye
    \/ MultiResponse
    \/ ClearAllCalls

SpecMulti == Init /\ [][NextMulti]_vars

(***************************************************************************)
(* SpecV: the INVITEs the validator rejects, and INVITEs from and to an    *)
(* extension (102) that never registers; no clock.                         *)
(***************************************************************************)
VRegisterMsgs == {RegisterMsg(n, n, "", ContactOf(n)) : n \in Agents}

VBase == InviteMsg("100", "101", "b", ViaOf("100"), "application/sdp", Offer("100"))

VValidInvites ==
    {InviteMsg("100", "101", "a", ViaOf("100"), "application/sdp", Offer("100")),
     InviteMsg("101", "100", "b", ViaOf("101"), "application/sdp", Offer("101")),
     InviteMsg("102", "101", "b", ViaOf("102"), "application/sdp", Offer("102")),
     InviteMsg("100", "102", "b", ViaOf("100"), "application/sdp", Offer("100")),
     \* To: "sip:102@x" <sip:101@host>, From: "sip:101@x" <sip:102@host>
     [VBase EXCEPT !.To = UriHdr("102", "101")],
     [VBase EXCEPT !.From = UriHdr("101", "102"), !.To = UriHdr("", "100"),
                   !.Via = ViaOf("102"), !.Contact = ContactOf("102")],
     \* no Via header: the validator does not require one
     [VBase EXCEPT !.Via = ""]}

VInvalidInvites ==
    {[VBase EXCEPT !.Contact = ""],
     [VBase EXCEPT !.From = NoUriHdr],
     [VBase EXCEPT !.From = UriHdr("", "099")],
     [VBase EXCEPT !.To = UriHdr("", "111")],
     [VBase EXCEPT !.To = UriHdr("", "bob")],
     [VBase EXCEPT !.To = UriHdr("", "100")],
     [VBase EXCEPT !.body = Sdp(TRUE, "audio", 80, "10.0.0.5")],
     [VBase EXCEPT !.body = Sdp(TRUE, "video", 40000, "10.0.0.5")],
     [VBase EXCEPT !.body = Sdp(FALSE, "audio", 40000, "10.0.0.5")],
     [VBase EXCEPT !.CallID = BadCallId],
     [VBase EXCEPT !.CSeq = BadCSeq],
     [VBase EXCEPT !.Via = BadVia],
     [VBase EXCEPT !.From = UriHdr("", "102"), !.Contact = ""]}

VInviteMsgs == VValidInvites \cup VInvalidInvites

VResponseMsgs ==
    {ResponseMsg("200", "OK", c, "1 INVITE", "application/sdp", Answer) : c \in {"a", "b"}}

VRegister == Register(VRegisterMsgs, MaxRegs)
VInvite == Invite(VInviteMsgs, MaxCalls)
VBye == Bye({"a", "b"}, {UA1})
VResponse == Response(VResponseMsgs, AgentSources)

NextV ==
    \/ VRegister
    \/ VInvite
    \/ VBye
    \/ VResponse

SpecV == Init /\ [][NextV]_vars

(***************************************************************************)
(* SpecReg: the registrar alone.  REGISTERs with every kind of Expires     *)
(* value, with a display name that quotes a sip: URI, for a user outside   *)
(* the extension set and for a third party, from the agent's home          *)
(* transport and, with the default Expires, from another one; the cleanup  *)
(* timer and the clock.                                                    *)
(***************************************************************************)
RegExpires == {"", "0", "86400", "86401", "abc", "60s"}

RegMsgs ==
    {RegisterMsg("100", "100", e, ContactOf(IF e = "86400" THEN "102" ELSE "100")) :
        e \in RegExpires}
    \cup {RegisterMsg("101", "101", e, ContactOf("101")) : e \in {"", "0"}}
    \cup {\* To: "sip:105@x" <sip:100@host> and To: "sip:099@x" <sip:100@host>
          [RegisterMsg("100", "100", "60", ContactOf("100")) EXCEPT !.To = UriHdr("105", "100")],
          [RegisterMsg("100", "100", "60", ContactOf("100")) EXCEPT !.To = UriHdr("099", "100")],
          RegisterMsg("099", "099", "60", ContactOf("099")),
          RegisterMsg("101", "100", "60", ContactOf("100"))}

RegSources(m) ==
    IF m.Expires = "" /\ m.From.user = "100" THEN {UA1, UA3} ELSE {Home(m.From.user)}

RegRegister ==
    \E m \in RegMsgs : \E rinfo \in RegSources(m) :
        RegisterBudget(m, MaxRegRegs) /\ handleRegister(m, rinfo)

NextReg ==
    \/ RegRegister
    \/ \E e \in {"", "abc"} :
           handleRegisterThrow(RegisterMsg("100", "100", e, ContactOf("100")), UA1)
    \/ UserCleanup
    \/ Advance

SpecReg == Init /\ [][NextReg]_vars

(***************************************************************************)
(* SpecSdp: the SDP rewriter alone, applied to SDP texts and then to its   *)
(* own results.                                                            *)
(***************************************************************************)
SdpLines ==
    {<<"v=0">>,
     <<"o=alice", "1", "1", "IN", "IP4", "10.0.0.5">>,
     <<"c=IN", "IP4", "10.0.0.5">>,
     <<"c=IN", "IP4", "192.168.0.42">>,
     <<"c=IN", "IP6", "::1">>,
     <<"m=audio", "40000", "RTP/AVP", "0">>,
     <<"m=audio", "40000/2", "RTP/AVP">>,
     <<"m=audio", "port">>,
     <<"m=video", "40000", "RTP/AVP", "96">>,
     <<"o=alice", "1", "IN", "IP4", "10.0.0.5">>,
     <<"o=a", "IN", "IP4", "IN", "IP4", "10.0.0.5">>,
     <<"o=alice", "1", "1", "IN", "IP4", "c=IN", "IP4", "10.0.0.5">>,
     <<"a=x", "c=IN", "IP4", "10.0.0.5", "m=audio", "5">>}

SdpTexts == UNION {[1..n -> SdpLines] : n \in 0..MaxSdpLines}

InitSdp ==
    /\ registeredUsers = EmptyMap
    /\ registrationHistory = <<>>
    /\ activeCalls = EmptyMap
    /\ callHistory = <<>>
    /\ activeStreams = <<>>
    /\ now = 0
    /\ up = TRUE
    /\ sent = <<>>
    /\ rtpSent = <<>>
    /\ buffer \in {[sdp |-> t, text |-> t, rewrites |-> 0] : t \in SdpTexts}

\* sdp = rtpProxy.modifySdp(sdp, callId)
ModifySdp ==
    /\ buffer.rewrites < MaxRewrites
    /\ buffer' = [buffer EXCEPT !.text = modifySdpText(@), !.rewrites = @ + 1]
    /\ UNCHANGED <<registeredUsers, registrationHistory, activeCalls, callHistory,
                   activeStreams, now, up, sent, rtpSent>>

NextSdp == ModifySdp

SpecSdp == InitSdp /\ [][NextSdp]_vars

(***************************************************************************)
(* SpecCodec: the codec alone.  Responses are parsed, and the parsed       *)
(* message is serialized with createSipResponse (status code and text      *)
(* taken from its first line, as the relay of a failure response does) and *)
(* parsed again.                                                           *)
(***************************************************************************)
CodecTexts ==
    LET firstLines == {<<"SIP/2.0", "200", "OK">>, <<"SIP/2.0", "486", "Busy", "Here">>}
        headerLines == {<<"Call-ID", "a">>, <<"Call-ID", "b">>,
                        <<"Content-Type", "application/sdp">>,
                        <<"Content-Length", 3>>, <<"Content-Length", 5>>, <<"no colon">>}
        headers == UNION {[1..n -> headerLines] : n \in 0..MaxHeaderLines}
        empty == <<>>
        v == <<"v=0">>
        s == <<"s=-">>
        bodies == {<<>>, <<empty>>, <<empty, v>>, <<empty, v, empty>>, <<empty, v, s>>,
                   <<empty, v, empty, s>>}
    IN  {<<f>> \o h \o b : f \in firstLines, h \in headers, b \in bodies}

InitCodec ==
    /\ registeredUsers = EmptyMap
    /\ registrationHistory = <<>>
    /\ activeCalls = EmptyMap
    /\ callHistory = <<>>
    /\ activeStreams = <<>>
    /\ now = 0
    /\ up = TRUE
    /\ sent = <<>>
    /\ rtpSent = <<>>
    /\ buffer \in {[parsed |-> parseSipMessage(t), text |-> t, trips |-> 0] : t \in CodecTexts}

\* parseSipMessage(createSipResponse(statusLine.split(' ')[1],
\*     statusLine.split(' ').slice(2).join(' '), parsed.headers, parsed.body))
RoundTrip ==
    /\ buffer.trips < MaxTrips
    /\ LET m == parseSipMessage(buffer.text)
           text == createSipResponseText(m.firstLine[2],
                       SubSeq(m.firstLine, 3, Len(m.firstLine)), m.headers, m.body)
       IN  buffer' = [buffer EXCEPT !.text = text, !.trips = @ + 1]
    /\ UNCHANGED <<registeredUsers, registrationHistory, activeCalls, callHistory,
                   activeStreams, now, up, sent, rtpSent>>

NextCodec == RoundTrip

SpecCodec == InitCodec /\ [][NextCodec]_vars

(***************************************************************************)
(* SpecMedia: the media path.  Two user agents, one Call-ID, INVITEs with  *)
(* and without SDP, answers with an audio and with a video SDP, BYE, and   *)
(* RTP packets from the two media endpoints and from a stranger; no clock. *)
(***************************************************************************)
MediaResponseMsgs ==
    {ResponseMsg("200", "OK", "a", "1 INVITE", "application/sdp", Answer),
     ResponseMsg("200", "OK", "a", "1 INVITE", "application/sdp",
                 Sdp(TRUE, "video", 41000, "10.0.0.6")),
     ResponseMsg("200", "OK", "a", "2 BYE", "", NoBody)}

MediaSources == RtpSources \cup {Endpoint("10.0.0.7", 42000)}

NextMedia ==
    \/ Register(VRegisterMsgs, MaxRegs)
    \/ Invite(InviteMsgs, MaxCalls)
    \/ \* To: "sip:100@x" <sip:101@host>
       Invite({[InviteMsg("100", "101", "a", ViaOf("100"), "application/sdp", Offer("100"))
                   EXCEPT !.To = UriHdr("100", "101")]}, MaxCalls)
    \/ Bye({"a"}, AgentSources)
    \/ Response(MediaResponseMsgs, AgentSources)
    \/ \E message \in {"P", "Q"}, rinfo \in MediaSources : handleRtpPacket(message, rinfo)

SpecMedia == Init /\ [][NextMedia]_vars

(***************************************************************************)
(* SpecCalls: the CallManager alone.  Its methods createCall, setTarget,   *)
(* updateCallState and cleanup are called one at a time on two Call-IDs,   *)
(* and the clock moves by the setup timeout exactly or by one millisecond  *)
(* more, so that dialogs in every state, younger than the timeout, exactly *)
(* as old and older, meet the cleanup timer.                               *)
(***************************************************************************)
NextCalls ==
    \/ \E c \in {"a", "b"} :
          /\ up
          /\ c \notin DOMAIN activeCalls
          /\ Cardinality(DOMAIN activeCalls) + Len(callHistory) < MaxMultiCalls
          /\ activeCalls' = MapSet(activeCalls, c,
                                   createCall(c, "100", "101", UA1.address, UA1.port))
          /\ sent' = <<>>
          /\ UNCHANGED <<registeredUsers, registrationHistory, callHistory, activeStreams,
                         now, up, rtpSent, buffer>>
    \/ \E c \in DOMAIN activeCalls :
          /\ up
          /\ activeCalls[c].state = "INITIATED"
          /\ activeCalls' = [activeCalls EXCEPT ![c] = setTarget(@, UA2.address, UA2.port)]
          /\ sent' = <<>>
          /\ UNCHANGED <<registeredUsers, registrationHistory, callHistory, activeStreams,
                         now, up, rtpSent, buffer>>
    \/ \E c \in DOMAIN activeCalls :
          /\ up
          /\ activeCalls[c].state = "RINGING"
          /\ activeCalls' = [activeCalls EXCEPT ![c] = updateCallState(@, "ESTABLISHED")]
          /\ sent' = <<>>
          /\ UNCHANGED <<registeredUsers, registrationHistory, callHistory, activeStreams,
                         now, up, rtpSent, buffer>>
    \/ /\ up
       /\ now + callSetup <= MaxTicks * TickMs
       /\ now' = now + callSetup
       /\ sent' = <<>>
       /\ UNCHANGED <<registeredUsers, registrationHistory, activeCalls, callHistory,
                      activeStreams, up, rtpSent, buffer>>
    \/ Advance
    \/ CallCleanup

SpecCalls == Init /\ [][NextCalls]_vars

(***************************************************************************)
(* SpecHist: the two histories one record below their cap.  Extension 110  *)
(* has registered 999 times from 10.0.0.7 (Expires 1, 2, ...) and 999      *)
(* dialogs between 100 and 101 have ended, one per millisecond; then 100   *)
(* and 101 register and the CallManager creates and ends dialogs, until    *)
(* MaxAppends records were appended to a history.                          *)
(***************************************************************************)
InitHist ==
    /\ registeredUsers =
          MapSet(EmptyMap, "110",
                 [number |-> "110", uri |-> "sip:102@192.168.1.102:5060",
                  address |-> UA3.address, port |-> UA3.port,
                  expires |-> maxHistorySize - 1,
                  expiresAt |-> maxHistorySize + (maxHistorySize - 1) * 1000,
                  registeredAt |-> 1, registrationCount |-> maxHistorySize - 1])
    /\ registrationHistory =
          [i \in 1..(maxHistorySize - 1) |->
              [action |-> "REGISTER", number |-> "110", address |-> UA3.address,
               port |-> UA3.port, expires |-> i]]
    /\ activeCalls = EmptyMap
    /\ callHistory =
          [i \in 1..(maxHistorySize - 1) |->
              [callId |-> "a", fromNumber |-> "100", toNumber |-> "101",
               state |-> "TERMINATED", inviteTime |-> i, answerTime |-> NullTime,
               endTime |-> i, duration |-> 0, terminationReason |-> "NORMAL"]]
    /\ activeStreams = <<>>
    /\ now = maxHistorySize
    /\ up = TRUE
    /\ sent = <<>>
    /\ rtpSent = <<>>
    /\ buffer = <<>>

NextHist ==
    \/ \E m \in VRegisterMsgs :
          /\ Cardinality({i \in 1..Len(registrationHistory) :
                             registrationHistory[i].number # "110"}) < MaxAppends
          /\ handleRegister(m, Home(m.From.user))
    \/ \E c \in {"a", "b"} :
          /\ up
          /\ c \notin DOMAIN activeCalls
          /\ Cardinality(DOMAIN activeCalls)
               + Cardinality({i \in 1..Len(callHistory) :
                                 callHistory[i].inviteTime = now}) < MaxAppends
          /\ activeCalls' = MapSet(activeCalls, c,
                                   createCall(c, "100", "101", UA1.address, UA1.port))
          /\ sent' = <<>>
          /\ UNCHANGED <<registeredUsers, registrationHistory, callHistory, activeStreams,
                         now, up, rtpSent, buffer>>
    \/ \E c \in DOMAIN activeCalls : \E reason \in {"NORMAL", "TIMEOUT"} :
          /\ up
          /\ LET r == endCall(activeCalls, callHistory, c, reason)
             IN  /\ activeCalls' = r[1]
                 /\ callHistory' = r[2]
          /\ sent' = <<>>
          /\ UNCHANGED <<registeredUsers, registrationHistory, activeStreams, now, up,
                         rtpSent, buffer>>

SpecHist == InitHist /\ [][NextHist]_vars

(***************************************************************************)
(* SpecLost: the server of Spec when every response of the user agents is  *)
(* lost: REGISTER, INVITE and BYE arrive, the timers run and the clock     *)
(* moves.  setInterval fires the cleanup timers again and again, and time  *)
(* passes: weak fairness on the three.                                     *)
(***************************************************************************)
SpecLost ==
    /\ Init
    /\ [][HandleRegister \/ HandleInvite \/ HandleBye
             \/ UserCleanup \/ CallCleanup \/ Advance]_vars
    /\ WF_vars(UserCleanup)
    /\ WF_vars(CallCleanup)
    /\ WF_vars(Advance)

(***************************************************************************)
(* SpecDialogs: the life of the dialogs.  Two user agents, one Call-ID,    *)
(* INVITE, the responses, BYE from either side, the dialog cleanup timer   *)
(* and the clock.                                                          *)
(***************************************************************************)
SpecDialogs ==
    /\ Init
    /\ [][\/ Register(VRegisterMsgs, MaxRegs)
          \/ Invite(InviteMsgs, MaxCalls)
          \/ Bye({"a"}, AgentSources)
          \/ Response(ResponseMsgs, AgentSources)
          \/ CallCleanup
          \/ Advance]_vars

(***************************************************************************)
(* Properties.  The words of the specification, written over the state:    *)
(* the two legs of a dialog, an extension being party of an active dialog, *)
(* an error response to the sender of a request.                           *)
(***************************************************************************)
FromTransport(call) == Endpoint(call.fromAddress, call.fromPort)
ToTransport(call) == Endpoint(call.toAddress, call.toPort)

PartyOf(calls, n) ==
    {c \in DOMAIN calls : /\ calls[c].fromNumber = n \/ calls[c].toNumber = n
                          /\ calls[c].state \in {"RINGING", "ESTABLISHED"}}

IsRequest(d, method) == d.msg.line.method = method
IsResponse(d, code) == d.msg.line.method = "SIP/2.0" /\ d.msg.line.code = code

\* the handler sent one datagram: the response `code` to rinfo, echoing m
OnlyAnswer(out, code, m, rinfo) ==
    /\ Len(out) = 1
    /\ out[1].dst = rinfo
    /\ IsResponse(out[1], code)
    /\ out[1].msg.CallID = m.CallID
    /\ out[1].msg.From = m.From
    /\ out[1].msg.To = m.To
    /\ out[1].msg.CSeq = m.CSeq

Registered(n) == n \in DOMAIN registeredUsers

\* C1: a BYE received on one leg of an active dialog is forwarded to the
\* other leg: from the caller's transport to the callee's, and from the
\* callee's transport to the caller's.  (After handleBye, sent is the
\* forwarded BYE followed by the 200 OK to the sender of the BYE.)
C1_ByeForwardedToOtherLeg ==
    (Len(sent) = 2 /\ IsRequest(sent[1], "BYE") /\ IsResponse(sent[2], "200")
        /\ sent[1].msg.CallID \in DOMAIN activeCalls)
    => LET call == activeCalls[sent[1].msg.CallID]
           sender == sent[2].dst
       IN  /\ sender = FromTransport(call) => sent[1].dst = ToTransport(call)
           /\ sender = ToTransport(call) => sent[1].dst = FromTransport(call)

\* C2: in every reachable state each extension is party (caller or callee)
\* of at most one active dialog in RINGING or ESTABLISHED.
C2_OneActiveDialogPerExtension ==
    \A n \in validExtensions : Cardinality(PartyOf(activeCalls, n)) <= 1

\* C3: every ESTABLISHED dialog has its from_rtp_port and its to_rtp_port set.
C3_EstablishedHasRtpPorts ==
    \A c \in DOMAIN activeCalls :
        activeCalls[c].state = "ESTABLISHED"
            => activeCalls[c].fromRtpPort # 0 /\ activeCalls[c].toRtpPort # 0

\* C4: no INVITE is forwarded when the binding of its caller or of its callee
\* has expired (now > expires_at), swept or not: such an INVITE gets 404.
C4_NoInviteOnExpiredBinding ==
    \A i \in 1..Len(sent) :
        IsRequest(sent[i], "INVITE")
            => \A n \in {extractNumber(sent[i].msg.From), extractNumber(sent[i].msg.To)} :
                   Registered(n) /\ ~Expired(registeredUsers[n])

\* C5: a cleanup tick that finds a dialog whose INVITE was forwarded more
\* than CALL_SETUP_TIMEOUT ago and that was not answered (still RINGING, no
\* BYE) ends it: the dialog leaves the active set and the history gets its
\* record, TERMINATED with reason TIMEOUT.
C5_SetupTimeout ==
    [][CallCleanup =>
        \A c \in DOMAIN activeCalls :
            (/\ activeCalls[c].state \in {"INITIATED", "RINGING"}
             /\ ~activeCalls[c].terminating
             /\ now - activeCalls[c].inviteTime > callSetup)
            => /\ c \notin DOMAIN activeCalls'
               /\ \E i \in 1..Len(callHistory') :
                      /\ callHistory'[i].callId = c
                      /\ callHistory'[i].state = "TERMINATED"
                      /\ callHistory'[i].terminationReason = "TIMEOUT"]_vars

\* C6: when the callee's 200 OK arrives for an established dialog on which
\* the caller's BYE was handled, the dialog leaves the active set, the
\* history gets exactly one new record, in state TERMINATED, and the stream
\* table has no entry under call_id nor under call_id_reverse.
C6_ByeTeardown ==
    [][\A m \in MultiResponseMsgs, rinfo \in MultiSources :
        (/\ handleResponse(m, rinfo)
         /\ m.CallID \in DOMAIN activeCalls
         /\ activeCalls[m.CallID].state = "ESTABLISHED"
         /\ activeCalls[m.CallID].terminating
         /\ rinfo = ToTransport(activeCalls[m.CallID]))
        => /\ m.CallID \notin DOMAIN activeCalls'
           /\ Len(callHistory') = Len(callHistory) + 1
           /\ SubSeq(callHistory', 1, Len(callHistory)) = callHistory
           /\ callHistory'[Len(callHistory')].callId = m.CallID
           /\ callHistory'[Len(callHistory')].state = "TERMINATED"
           /\ m.CallID \notin StreamKeys(activeStreams')
           /\ Reverse(m.CallID) \notin StreamKeys(activeStreams')]_vars

\* C7: every stream entry is one of the pair of a dialog of the active set
\* (live or terminating): the entry under the dialog's key k or the entry
\* under k_reverse, the other one being there with the endpoints swapped.
C7_StreamPairsOfActiveDialogs ==
    \A i \in 1..Len(activeStreams) :
        LET s == activeStreams[i]
            swapped(k) == Stream(k, s.toAddress, s.toPort, s.fromAddress, s.fromPort)
        IN  \E c \in DOMAIN activeCalls, j \in 1..Len(activeStreams) :
                \/ s.key = c /\ activeStreams[j] = swapped(Reverse(c))
                \/ s.key = Reverse(c) /\ activeStreams[j] = swapped(c)

\* C8: a valid INVITE between two registered extensions (the users of its
\* From and To URIs) whose callee is party of an active dialog in RINGING or
\* ESTABLISHED gets 486 Busy Here, sent to the sender and to nobody else,
\* and no dialog is created or changed.
C8_BusyHere ==
    [][\A m \in VInviteMsgs :
        (/\ handleInvite(m, Home(m.From.user))
         /\ validateInviteRequest(m)
         /\ Registered(extractUri(m.From))
         /\ Registered(extractUri(m.To))
         /\ PartyOf(activeCalls, extractUri(m.To)) # {})
        => /\ OnlyAnswer(sent', "486", m, Home(m.From.user))
           /\ UNCHANGED <<activeCalls, callHistory, activeStreams>>]_vars

\* C9: a valid INVITE whose caller or callee (the users of its From and To
\* URIs) has no binding gets 404 Not Found, sent to the sender and to nobody
\* else, and no dialog is created; this holds when the callee is busy too
\* (the check precedes the busy check), and an INVITE the validator rejects
\* never gets 404 (the check follows validation).
C9_NotFound ==
    [][\A m \in VInviteMsgs :
        handleInvite(m, Home(m.From.user))
        => /\ (/\ validateInviteRequest(m)
               /\ ~(Registered(extractUri(m.From)) /\ Registered(extractUri(m.To))))
              => /\ OnlyAnswer(sent', "404", m, Home(m.From.user))
                 /\ UNCHANGED <<activeCalls, callHistory, activeStreams>>
           /\ ~validateInviteRequest(m)
              => \A i \in 1..Len(sent') : ~IsResponse(sent'[i], "404")]_vars

\* what the validator must reject: a required header missing, a malformed
\* Call-ID, CSeq or Via, a From or To user outside the extension set,
\* From = To, an SDP body that is not valid
Invalid(m) ==
    \/ \E h \in {"To", "From", "CallID", "CSeq", "Contact"} : HeaderMissing(m, h)
    \/ m.CallID = BadCallId \/ m.CSeq = BadCSeq \/ m.Via = BadVia
    \/ m.From.user \notin validExtensions
    \/ m.To.user \notin validExtensions
    \/ m.From.user = m.To.user
    \/ /\ IsSdp(m)
       /\ ~(/\ m.body.ok
            /\ m.body.media = "audio"
            /\ m.body.port \in minMediaPort..maxMediaPort)

\* C10: an INVITE that fails validation gets exactly one 400 Bad Request,
\* sent to the sender; the dialog map, the registrar and the stream table
\* are unchanged and nothing goes to any other endpoint.
C10_BadRequest ==
    [][\A m \in VInviteMsgs :
        (handleInvite(m, Home(m.From.user)) /\ Invalid(m))
        => /\ OnlyAnswer(sent', "400", m, Home(m.From.user))
           /\ UNCHANGED <<activeCalls, callHistory, registeredUsers,
                          registrationHistory, activeStreams>>]_vars

\* a 400 answered while both extensions are registered and a dialog is up
C10_Witness ==
    /\ Len(sent) = 1
    /\ IsResponse(sent[1], "400")
    /\ DOMAIN registeredUsers = Agents
    /\ activeCalls # EmptyMap
    /\ activeStreams # <<>>

\* what the specification calls a valid REGISTER: the five headers, To and
\* From the same user of the extension set, Expires absent or an integer of
\* [0, 86400]
IsInteger(s) == s \in {"0", "60", "3600", "86400", "86401"}
ExpiresInRange(s) == IsInteger(s) /\ parseInt(s) \in 0..maxExpires
ValidRegister(m) ==
    /\ \A h \in {"To", "From", "CallID", "CSeq", "Contact"} : ~HeaderMissing(m, h)
    /\ m.To.user \in validExtensions
    /\ m.To.user = m.From.user
    /\ m.Expires # "" => ExpiresInRange(m.Expires)
\* the Expires of a valid REGISTER in seconds, 3600 when the header is absent
ExpiresOf(m) == IF m.Expires = "" THEN 3600 ELSE parseInt(m.Expires)

\* C11: after a valid REGISTER for extension n (the user of its To URI)
\* received from (a, p) with Expires e, the registrar maps n to a binding
\* whose transport is (a, p), not the address of Contact, and whose
\* expires_at is now + e seconds, and one 200 OK goes back to (a, p).
C11_RegisterInstallsBinding ==
    [][\A m \in RegMsgs : \A rinfo \in RegSources(m) :
        (handleRegister(m, rinfo) /\ ValidRegister(m))
        => LET n == m.To.user
           IN  /\ n \in DOMAIN registeredUsers'
               /\ registeredUsers'[n].address = rinfo.address
               /\ registeredUsers'[n].port = rinfo.port
               /\ registeredUsers'[n].expiresAt = now + ExpiresOf(m) * 1000
               /\ OnlyAnswer(sent', "200", m, rinfo)]_vars

\* C12: every key of the registrar map is a member of the configured
\* extension set.
C12_KeysAreExtensions == DOMAIN registeredUsers \subseteq validExtensions

\* C13: a REGISTER with Expires: 0 is accepted with 200 OK and installs a
\* binding that expires at the time of the REGISTER; a cleanup tick that runs
\* at a later time (now > expires_at) removes it.
C13_ExpiresZero ==
    [][/\ \A m \in RegMsgs : \A rinfo \in RegSources(m) :
            (handleRegister(m, rinfo) /\ ValidRegister(m) /\ m.Expires = "0")
            => /\ OnlyAnswer(sent', "200", m, rinfo)
               /\ m.To.user \in DOMAIN registeredUsers'
               /\ registeredUsers'[m.To.user].expires = 0
               /\ registeredUsers'[m.To.user].expiresAt = now
       /\ UserCleanup
            => \A n \in DOMAIN registeredUsers :
                   (registeredUsers[n].expires = 0 /\ now > registeredUsers[n].expiresAt)
                   => n \notin DOMAIN registeredUsers']_vars

\* a binding registered with Expires: 0 is gone after the clock went on
C13_Witness ==
    /\ now > 0
    /\ \E i \in 1..Len(registrationHistory) :
           /\ registrationHistory[i].expires = 0
           /\ registrationHistory[i].number \notin DOMAIN registeredUsers

\* C13 as stated: the binding of a REGISTER with Expires: 0 is absent after
\* the next cleanup tick, whenever that tick runs.
C13_ExpiresZeroNextTick ==
    [][UserCleanup
        => \A n \in DOMAIN registeredUsers :
               registeredUsers[n].expires = 0 => n \notin DOMAIN registeredUsers']_vars

\* C14: a REGISTER whose Expires header is present and is not an integer of
\* [0, 86400] gets 400 Bad Request and changes no binding; a REGISTER that is
\* valid otherwise is accepted with every Expires value of [0, 86400].
C14_ExpiresRange ==
    [][\A m \in RegMsgs : \A rinfo \in RegSources(m) :
        handleRegister(m, rinfo)
        => /\ (m.Expires # "" /\ ~ExpiresInRange(m.Expires))
              => /\ OnlyAnswer(sent', "400", m, rinfo)
                 /\ UNCHANGED <<registeredUsers, registrationHistory>>
           /\ ValidRegister(m) => OnlyAnswer(sent', "200", m, rinfo)]_vars

\* C15: the 200 OK relayed to the caller of a dialog that is not terminating
\* carries the Via, From, To and CSeq captured from the INVITE, never those
\* of the response received, and goes to the caller's transport.
C15_OkCarriesInviteHeaders ==
    [][\A m \in VResponseMsgs : \A rinfo \in AgentSources :
        (/\ handleResponse(m, rinfo)
         /\ Includes200OK(m.line)
         /\ m.CallID \in DOMAIN activeCalls
         /\ ~activeCalls[m.CallID].terminating)
        => LET call == activeCalls[m.CallID]
           IN  /\ Len(sent') = 1
               /\ IsResponse(sent'[1], "200")
               /\ sent'[1].dst = FromTransport(call)
               /\ sent'[1].msg.Via = call.originalVia
               /\ sent'[1].msg.From = call.originalFrom
               /\ sent'[1].msg.To = call.originalTo
               /\ sent'[1].msg.CSeq = call.originalCSeq]_vars

\* `<sip:${toNumber}@${serverAddress}:${port}>`
ServerContact(n) == CASE n = "100" -> "<sip:100@192.168.0.42:5060>"
                      [] n = "101" -> "<sip:101@192.168.0.42:5060>"
                      [] n = "102" -> "<sip:102@192.168.0.42:5060>"
                      [] OTHER     -> "<sip:@192.168.0.42:5060>"

\* C16: the Contact of the 200 OK relayed to the caller is the server's
\* address under the dialog's callee, <sip:TO_NUMBER@SERVER_ADDR:SIP_PORT>.
C16_OkContactIsCallee ==
    [][\A m \in ResponseMsgs : \A rinfo \in AgentSources :
        (/\ handleResponse(m, rinfo)
         /\ Includes200OK(m.line)
         /\ m.CallID \in DOMAIN activeCalls
         /\ ~activeCalls[m.CallID].terminating)
        => /\ Len(sent') = 1
           /\ sent'[1].msg.Contact = ServerContact(activeCalls[m.CallID].toNumber)]_vars

\* C17: no datagram stops the server: after every sequence of datagrams the
\* process is still running and handling the next one.
C17_ServerStaysUp == up

\* C20: every BYE is answered with exactly one 200 OK, sent to the source of
\* the BYE and echoing its Call-ID, From, To and CSeq, whether its Call-ID is
\* the key of an active dialog or not.
C20_ByeAnswered ==
    [][\A c \in {"a", "b"} :
        LET m == ByeMsg(c, UA1)
            oks == {i \in 1..Len(sent') : IsResponse(sent'[i], "200")}
        IN  handleBye(m, UA1)
            => /\ Cardinality(oks) = 1
               /\ \A i \in oks : OnlyAnswer(<<sent'[i]>>, "200", m, UA1)]_vars

\* a 200 OK answered a BYE whose Call-ID is no dialog, while another is active
C20_Witness ==
    /\ Len(sent) = 1
    /\ IsResponse(sent[1], "200")
    /\ sent[1].msg.CSeq = "2 BYE"
    /\ sent[1].msg.CallID \notin DOMAIN activeCalls
    /\ activeCalls # EmptyMap

\* C18: the SDP rewriter is idempotent and a function of the text alone
\* (with the configured address and port): once applied, applying it again
\* changes nothing, and the result is the rewrite of the original text.
C18_ModifySdpIdempotent ==
    buffer.rewrites >= 1
        => /\ modifySdpText(buffer.text) = buffer.text
           /\ buffer.text = modifySdpText(buffer.sdp)

\* a text with a connection line and an audio line, both rewritten, twice
C18_Witness ==
    /\ buffer.rewrites = 2
    /\ buffer.text # buffer.sdp
    /\ \E i, j \in 1..Len(buffer.text) :
           /\ buffer.text[i] = <<"c=IN", "IP4", serverAddress>>
           /\ buffer.sdp[i] # buffer.text[i]
           /\ buffer.text[j] = <<"m=audio", "10000", "RTP/AVP", "0">>

\* C19: round trip of the codec: parsing the serialization of a message that
\* parseSipMessage produced yields the same first line, the same header map
\* and the same body.
C19_RoundTrip ==
    buffer.trips >= 1
        => LET m == parseSipMessage(buffer.text)
               map(headers) == {headers[k] : k \in 1..Len(headers)}
           IN  /\ m.firstLine = buffer.parsed.firstLine
               /\ map(m.headers) = map(buffer.parsed.headers)
               /\ m.body = buffer.parsed.body

\* C21: an ACK, a BYE or a response whose Call-ID is the key of no active
\* dialog is dropped: nothing is sent, and the dialog map, the registrar and
\* the stream table are unchanged.
C21_UnknownDialogDropped ==
    [][("a" \notin DOMAIN activeCalls
          /\ \/ \E rinfo \in AgentSources : handleBye(ByeMsg("a", rinfo), rinfo)
             \/ \E via \in {ViaOf("100"), ""} : handleAck(AckMsg("a", via), UA1)
             \/ \E m \in ResponseMsgs, rinfo \in AgentSources : handleResponse(m, rinfo))
        => /\ sent' = <<>>
           /\ UNCHANGED <<activeCalls, callHistory, registeredUsers, activeStreams>>]_vars

\* C22: a dialog on which a BYE was handled stays in the active set when a
\* response arrives that is not the 200 OK to that BYE from a leg of the
\* dialog: the callee's late 200 OK to the INVITE, another response, or a
\* 200 OK from another source does not finalize it.
C22_OnlyByeAnswerFinalizes ==
    [][\A m \in ResponseMsgs : \A rinfo \in AgentSources :
        (/\ handleResponse(m, rinfo)
         /\ m.CallID \in DOMAIN activeCalls
         /\ activeCalls[m.CallID].terminating
         /\ ~(/\ Includes200OK(m.line)
              /\ m.CSeq = "2 BYE"
              /\ rinfo \in {FromTransport(activeCalls[m.CallID]),
                            ToTransport(activeCalls[m.CallID])}))
        => m.CallID \in DOMAIN activeCalls']_vars

\* C23: when a BYE is handled for an active dialog, from either leg, the
\* dialog's state becomes TERMINATING, and is_number_busy no longer counts
\* the dialog for its caller nor for its callee.
C23_ByeMakesTerminating ==
    [][\A rinfo \in AgentSources :
        (handleBye(ByeMsg("a", rinfo), rinfo) /\ "a" \in DOMAIN activeCalls)
        => /\ "a" \in DOMAIN activeCalls'
           /\ activeCalls'["a"].state = "TERMINATING"
           /\ ~isNumberBusy(activeCalls', activeCalls["a"].fromNumber)
           /\ ~isNumberBusy(activeCalls', activeCalls["a"].toNumber)]_vars

\* C24: when the callee answers a forwarded INVITE with 404, 486 or 487, the
\* response is relayed to the caller and the dialog is ended: it leaves the
\* active set, the history gets its record, and neither party is busy.
C24_FailureEndsDialog ==
    [][\A m \in ResponseMsgs : \A rinfo \in AgentSources :
        (/\ handleResponse(m, rinfo)
         /\ IncludesFailure(m.line)
         /\ m.CallID \in DOMAIN activeCalls
         /\ ~activeCalls[m.CallID].terminating)
        => LET call == activeCalls[m.CallID]
           IN  /\ Len(sent') = 1
               /\ IsResponse(sent'[1], m.line.code)
               /\ sent'[1].dst = FromTransport(call)
               /\ m.CallID \notin DOMAIN activeCalls'
               /\ Len(callHistory') = Len(callHistory) + 1
               /\ callHistory'[Len(callHistory')].callId = m.CallID
               /\ ~isNumberBusy(activeCalls', call.fromNumber)
               /\ ~isNumberBusy(activeCalls', call.toNumber)]_vars

\* C25: when a 200 OK with an SDP body is relayed for a dialog that is not
\* terminating and whose INVITE carried an m=audio port, the stream table
\* then holds the entry call_id = (caller's signalling address, INVITE
\* m=audio port) -> (source address of the 200 OK, its m=audio port) and the
\* entry call_id_reverse with the endpoints swapped, and no other entry
\* changed; when either port is unknown the table is unchanged.
C25_StreamPairInstalled ==
    [][\A m \in MediaResponseMsgs : \A rinfo \in AgentSources :
        (/\ handleResponse(m, rinfo)
         /\ Includes200OK(m.line)
         /\ m.CallID \in DOMAIN activeCalls
         /\ ~activeCalls[m.CallID].terminating)
        => LET c == m.CallID
               call == activeCalls[c]
               on(streams, s) == \E i \in 1..Len(streams) : streams[i] = s
           IN  IF IsSdp(m) /\ m.body.media = "audio" /\ call.fromRtpPort # 0
               THEN /\ on(activeStreams', Stream(c, call.fromAddress, call.fromRtpPort,
                                                 rinfo.address, m.body.port))
                    /\ on(activeStreams', Stream(Reverse(c), rinfo.address, m.body.port,
                                                 call.fromAddress, call.fromRtpPort))
                    /\ \A i \in 1..Len(activeStreams) :
                           activeStreams[i].key \notin {c, Reverse(c)}
                               => on(activeStreams', activeStreams[i])
                    /\ StreamKeys(activeStreams') = StreamKeys(activeStreams) \cup {c, Reverse(c)}
               ELSE UNCHANGED activeStreams]_vars

\* the bridge (10.0.0.5, 40000) <-> (10.0.0.6, 41000) of dialog a is installed
\* and the 200 OK went to the caller
C25_Witness ==
    /\ Len(sent) = 1
    /\ IsResponse(sent[1], "200")
    /\ sent[1].dst = UA1
    /\ activeStreams = <<Stream("a", "10.0.0.5", 40000, "10.0.0.6", 41000),
                         Stream("a_reverse", "10.0.0.6", 41000, "10.0.0.5", 40000)>>

\* C26: an RTP datagram from (addr, port) is sent, payload unchanged, to
\* exactly one destination, the opposite endpoint of a stream entry one side
\* of which equals (addr, port); when no entry matches nothing is sent; the
\* stream table is unchanged either way.
C26_RtpRelayedToOppositeEndpoint ==
    [][\A message \in {"P", "Q"} : \A rinfo \in MediaSources :
        handleRtpPacket(message, rinfo)
        => LET from(s) == Endpoint(s.fromAddress, s.fromPort)
               to(s) == Endpoint(s.toAddress, s.toPort)
               matching == {i \in 1..Len(activeStreams) :
                               rinfo \in {from(activeStreams[i]), to(activeStreams[i])}}
           IN  /\ UNCHANGED activeStreams
               /\ IF matching = {}
                   THEN rtpSent' = <<>>
                   ELSE /\ Len(rtpSent') = 1
                        /\ rtpSent'[1].payload = message
                        /\ \E i \in matching :
                              \/ rinfo = from(activeStreams[i])
                                    /\ rtpSent'[1].dst = to(activeStreams[i])
                              \/ rinfo = to(activeStreams[i])
                                    /\ rtpSent'[1].dst = from(activeStreams[i])]_vars

\* a packet Q from the callee's media endpoint went to the caller's
C26_Witness ==
    /\ activeStreams # <<>>
    /\ rtpSent = <<[dst |-> Endpoint("10.0.0.5", 40000), payload |-> "Q"]>>

\* C27: an ACK whose Call-ID names an active dialog is forwarded to the
\* dialog's to_transport with a Via naming the server, also after a BYE was
\* handled, and changes no dialog, registrar or stream state.
C27_AckForwarded ==
    [][\A via \in {ViaOf("100"), ""} :
        (handleAck(AckMsg("a", via), UA1) /\ "a" \in DOMAIN activeCalls)
        => /\ Len(sent') = 1
           /\ IsRequest(sent'[1], "ACK")
           /\ sent'[1].dst = ToTransport(activeCalls["a"])
           /\ sent'[1].msg.Via = AckVia(via)
           /\ sent'[1].msg.CallID = "a"
           /\ UNCHANGED <<activeCalls, callHistory, registeredUsers, activeStreams>>]_vars

\* C28: every response relayed to the caller of a dialog, a 404/486/487
\* failure from the callee included, carries the top Via the caller put in
\* its INVITE, never the server's own Via echoed back by the callee.
C28_RelayedResponseHasCallerVia ==
    [][\A m \in ResponseMsgs : \A rinfo \in AgentSources :
        (/\ handleResponse(m, rinfo)
         /\ m.CallID \in DOMAIN activeCalls
         /\ sent' # <<>>)
        => /\ sent'[1].dst = FromTransport(activeCalls[m.CallID])
           /\ sent'[1].msg.Via = activeCalls[m.CallID].originalVia
           /\ sent'[1].msg.Via # ServerVia]_vars

\* C29: when the REGISTER handler throws after the message was parsed, one
\* 500 Internal Server Error carrying the request's From, To, Call-ID and
\* CSeq (and Via) is sent to the source and the handler returns: the server
\* keeps running.
C29_ThrowAnsweredWith500 ==
    [][\A m \in RegMsgs :
        handleRegisterThrow(m, UA1)
        => /\ up'
           /\ OnlyAnswer(sent', "500", m, UA1)
           /\ sent'[1].msg.Via = m.Via]_vars

\* C30: a cleanup tick of the dialog manager ends, with reason TIMEOUT,
\* exactly the active dialogs in state INITIATED whose invite_time is more
\* than CALL_SETUP_TIMEOUT ms in the past; every dialog in RINGING or
\* ESTABLISHED and every younger INITIATED dialog stays in the active set
\* unchanged.
C30_CleanupEndsStaleInitiated ==
    [][CallCleanup
        => LET stale == {c \in DOMAIN activeCalls :
                            /\ activeCalls[c].state = "INITIATED"
                            /\ activeCalls[c].inviteTime + callSetup < now}
           IN  /\ DOMAIN activeCalls' = DOMAIN activeCalls \ stale
               /\ \A c \in DOMAIN activeCalls' : activeCalls'[c] = activeCalls[c]
               /\ Len(callHistory') = Len(callHistory) + Cardinality(stale)
               /\ \A i \in 1..Len(callHistory) : callHistory'[i] = callHistory[i]
               /\ \A c \in stale :
                     \E i \in (Len(callHistory) + 1)..Len(callHistory') :
                        /\ callHistory'[i].callId = c
                        /\ callHistory'[i].terminationReason = "TIMEOUT"]_vars

\* one dialog was ended with TIMEOUT while a RINGING dialog older than the
\* timeout is still active
C30_Witness ==
    /\ \E i \in 1..Len(callHistory) : callHistory[i].terminationReason = "TIMEOUT"
    /\ \E c \in DOMAIN activeCalls :
          /\ activeCalls[c].state = "RINGING"
          /\ activeCalls[c].inviteTime + callSetup < now

\* C31: after a registrar cleanup tick no binding with now > expires_at
\* remains, every binding with now <= expires_at is still present and
\* unmodified, and no dialog and no stream entry has changed.
C31_CleanupRemovesExpired ==
    [][UserCleanup
        => /\ \A n \in DOMAIN registeredUsers' : ~(now > registeredUsers'[n].expiresAt)
           /\ \A n \in DOMAIN registeredUsers :
                 now <= registeredUsers[n].expiresAt
                     => /\ n \in DOMAIN registeredUsers'
                        /\ registeredUsers'[n] = registeredUsers[n]
           /\ DOMAIN registeredUsers' \subseteq DOMAIN registeredUsers
           /\ UNCHANGED <<activeCalls, callHistory, activeStreams>>]_vars

\* the clock has moved, 100 registered and its binding is gone, and the
\* binding of 101, not yet expired, is still there
C31_Witness ==
    /\ now > 0
    /\ \E i \in 1..Len(registrationHistory) : registrationHistory[i].number = "100"
    /\ "100" \notin DOMAIN registeredUsers
    /\ "101" \in DOMAIN registeredUsers
    /\ now <= registeredUsers["101"].expiresAt

\* C32: every dialog the server moves to ESTABLISHED has answer_time recorded
\* at that moment (so that the history record of its end has
\* duration_seconds = max(0, end_time - answer_time)).
C32_AnswerTimeRecorded ==
    [][\A c \in DOMAIN activeCalls \cap DOMAIN activeCalls' :
        (activeCalls[c].state # "ESTABLISHED" /\ activeCalls'[c].state = "ESTABLISHED")
        => activeCalls'[c].answerTime = now']_vars

\* C33: when register is called for an extension that already has a binding,
\* the new binding keeps the prior registered_at and has registration_count
\* = prior count + 1, while address, port, contact URI and expires_at are
\* those of the new request; with no prior binding registration_count is 1
\* and registered_at is now.  No other binding changes.
C33_RegisterMergesWithPrior ==
    [][\A m \in RegMsgs : \A rinfo \in RegSources(m) :
        (handleRegister(m, rinfo) /\ registeredUsers' # registeredUsers)
        => \E n \in DOMAIN registeredUsers' :
              LET new == registeredUsers'[n]
              IN  /\ DOMAIN registeredUsers' = DOMAIN registeredUsers \cup {n}
                  /\ \A k \in DOMAIN registeredUsers \ {n} :
                        registeredUsers'[k] = registeredUsers[k]
                  /\ new.address = rinfo.address
                  /\ new.port = rinfo.port
                  /\ new.uri = contactUri(m.Contact)
                  /\ new.expiresAt = now + ExpiresOf(m) * 1000
                  /\ IF n \in DOMAIN registeredUsers
                     THEN /\ new.registeredAt = registeredUsers[n].registeredAt
                          /\ new.registrationCount = registeredUsers[n].registrationCount + 1
                     ELSE /\ new.registeredAt = now
                          /\ new.registrationCount = 1]_vars

\* 100 registered at time 0 and again, from another address and with
\* another Contact, after the clock moved
C33_Witness ==
    /\ "100" \in DOMAIN registeredUsers
    /\ registeredUsers["100"].registrationCount = 2
    /\ registeredUsers["100"].registeredAt = 0
    /\ registeredUsers["100"].expiresAt > now
    /\ now > 0
    /\ registeredUsers["100"].uri = "sip:102@192.168.1.102:5060"

\* C34: the registration history and the call history each hold at most
\* 1000 records; a record appended to a full history (by a registration, by
\* the end of a dialog) becomes its last record, drops the oldest record and
\* keeps the order of the others; a record appended to a history that is
\* not full drops none.
C34_HistoriesCapped ==
    [][LET Appended(h, g) ==
               IF Len(h) = maxHistorySize
               THEN /\ Len(g) = maxHistorySize
                    /\ \A i \in 1..(maxHistorySize - 1) : g[i] = h[i + 1]
               ELSE /\ Len(g) = Len(h) + 1
                    /\ \A i \in 1..Len(h) : g[i] = h[i]
           ended == DOMAIN activeCalls \ DOMAIN activeCalls'
       IN  /\ Len(registrationHistory') <= maxHistorySize
           /\ Len(callHistory') <= maxHistorySize
           /\ IF registeredUsers' # registeredUsers
              THEN /\ Appended(registrationHistory, registrationHistory')
                   /\ registrationHistory'[Len(registrationHistory')].number
                          \in DOMAIN registeredUsers'
                   /\ registrationHistory'[Len(registrationHistory')].number # "110"
              ELSE UNCHANGED registrationHistory
           /\ IF ended # {}
              THEN /\ Appended(callHistory, callHistory')
                   /\ callHistory'[Len(callHistory')].callId \in ended
                   /\ callHistory'[Len(callHistory')].endTime = now
              ELSE UNCHANGED callHistory]_vars

\* both histories are full, each has dropped its oldest record and ends
\* with a record of this run
C34_Witness ==
    /\ Len(registrationHistory) = maxHistorySize
    /\ registrationHistory[1].expires = 2
    /\ registrationHistory[maxHistorySize].number = "100"
    /\ Len(callHistory) = maxHistorySize
    /\ callHistory[1].inviteTime = 2
    /\ callHistory[maxHistorySize].terminationReason = "TIMEOUT"

\* C35: for every accepted INVITE the 100 Trying is sent to the caller
\* before the downstream INVITE, and the downstream INVITE goes to the
\* address and port of the binding of the callee (the user of the To URI)
\* with the Call-ID, From, To and CSeq of the INVITE received.
C35_TryingThenInviteToCallee ==
    [][\A m \in InviteMsgs \cup
                {[InviteMsg("100", "101", "a", ViaOf("100"), "application/sdp", Offer("100"))
                     EXCEPT !.To = UriHdr("100", "101")]} :
        (/\ handleInvite(m, Home(m.From.user))
         /\ \E i \in 1..Len(sent') : IsResponse(sent'[i], "100"))
        => LET callee == extractUri(m.To)
           IN  /\ Len(sent') = 2
               /\ IsResponse(sent'[1], "100")
               /\ sent'[1].dst = Home(m.From.user)
               /\ IsRequest(sent'[2], "INVITE")
               /\ callee \in DOMAIN registeredUsers
               /\ sent'[2].dst = Endpoint(registeredUsers[callee].address,
                                          registeredUsers[callee].port)
               /\ sent'[2].msg.CallID = m.CallID
               /\ sent'[2].msg.From = m.From
               /\ sent'[2].msg.To = m.To
               /\ sent'[2].msg.CSeq = m.CSeq]_vars

\* C36: an INVITE whose Call-ID is that of a dialog in the active set never
\* replaces or alters that dialog: its parties, transports, preserved
\* headers, state and terminating flag are the same afterwards.
C36_InviteKeepsExistingDialog ==
    [][\A m \in MultiInviteMsgs :
        (handleInvite(m, Home(m.From.user)) /\ m.CallID \in DOMAIN activeCalls)
        => /\ m.CallID \in DOMAIN activeCalls'
           /\ activeCalls'[m.CallID] = activeCalls[m.CallID]]_vars

\* C37: every dialog on which a BYE was handled is eventually removed from
\* the active set, also when no 200 OK to the forwarded BYE ever arrives.
C37_TerminatingEventuallyRemoved ==
    ("a" \in DOMAIN activeCalls /\ activeCalls["a"].terminating)
        ~> ("a" \notin DOMAIN activeCalls)

\* C38: installing (200 OK) or removing (BYE) the streams of one call never
\* creates, overwrites or deletes a stream entry of another active call,
\* the entries of a call being those under its Call-ID and under
\* Call-ID_reverse; this for all pairs of distinct Call-IDs the validator
\* accepts.
C38_StreamsOfOtherCallsUntouched ==
    [][LET entries(streams, c) ==
               {streams[i] : i \in {k \in 1..Len(streams) :
                                       streams[k].key \in {c, Reverse(c)}}}
           others(c) ==
               \A d \in DOMAIN activeCalls \ {c} :
                   entries(activeStreams', d) = entries(activeStreams, d)
       IN  /\ \A m \in MultiResponseMsgs : \A rinfo \in MultiSources :
                 handleResponse(m, rinfo) => others(m.CallID)
           /\ \A c \in CallIds :
                 handleBye(ByeMsg(c, UA1), UA1) => others(c)]_vars

\* C39: a retransmitted INVITE (the Call-ID, caller and callee of a dialog
\* that is still RINGING) is not answered with 486 Busy Here: 486 is sent
\* only when the callee is party to a dialog other than the one the
\* INVITE's Call-ID names.
C39_BusyOnlyForOtherDialog ==
    [][\A m \in InviteMsgs :
        (/\ handleInvite(m, Home(m.From.user))
         /\ \E i \in 1..Len(sent') : IsResponse(sent'[i], "486"))
        => PartyOf(activeCalls, extractUri(m.To)) \ {m.CallID} # {}]_vars

\* C40: in every state between two handlers or timer callbacks each dialog
\* of the active map is in state RINGING or ESTABLISHED: INITIATED is never
\* observable, and a TERMINATED dialog is removed in the step that ends it.
C40_ActiveIsRingingOrEstablished ==
    \A c \in DOMAIN activeCalls : activeCalls[c].state \in {"RINGING", "ESTABLISHED"}

\* after the clock moved and the timer ran: an established dialog on which a
\* BYE was handled is still active, and not TERMINATED
C40_Witness ==
    /\ now > 0
    /\ "a" \in DOMAIN activeCalls
    /\ activeCalls["a"].state = "ESTABLISHED"
    /\ activeCalls["a"].terminating
    /\ callHistory = <<>>
====
